---- MODULE Spec2Model ----
(***************************************************************************)
(* Model of transcriber.py: the VTT-to-plaintext conversion                *)
(* (vtt_to_plaintext) and the extraction orchestration                     *)
(* (process_video_details).                                                *)
(*                                                                         *)
(* Text is modelled as a sequence of one-character strings, so that the    *)
(* string operations of the code (strip, lower, startswith, "in", isdigit, *)
(* re.sub, replace, join, splitlines) are computed and not assumed.        *)
(***************************************************************************)
EXTENDS Integers, Sequences, FiniteSets, TLC

(***************************************************************************)
(* Bounds of the model.                                                    *)
(***************************************************************************)
\* Longest input, in lines, given to the parsing loop.
MaxLines == 4
\* Longest segment sequence given to the deduplication stage.
MaxSegs == 4

(***************************************************************************)
(* String primitives (Python str methods used by the code).                *)
(***************************************************************************)
NBSP == "NBSP"   \* the character U+00A0

\* str.strip() with no argument removes Unicode whitespace, U+00A0 included.
IsSpace(c) == c \in {" ", "\t", NBSP}

Digits == {"0", "1", "2", "3", "4", "5", "6", "7", "8", "9"}

LowerChar(c) ==
    CASE c = "A" -> "a" [] c = "B" -> "b" [] c = "C" -> "c" [] c = "D" -> "d"
      [] c = "E" -> "e" [] c = "F" -> "f" [] c = "G" -> "g" [] c = "H" -> "h"
      [] c = "I" -> "i" [] c = "J" -> "j" [] c = "K" -> "k" [] c = "L" -> "l"
      [] c = "M" -> "m" [] c = "N" -> "n" [] c = "O" -> "o" [] c = "P" -> "p"
      [] c = "Q" -> "q" [] c = "R" -> "r" [] c = "S" -> "s" [] c = "T" -> "t"
      [] c = "U" -> "u" [] c = "V" -> "v" [] c = "W" -> "w" [] c = "X" -> "x"
      [] c = "Y" -> "y" [] c = "Z" -> "z" [] OTHER -> c

Lower(s) == [i \in 1..Len(s) |-> LowerChar(s[i])]

RECURSIVE LStrip(_)
LStrip(s) ==
    IF s = <<>> THEN <<>>
    ELSE IF IsSpace(Head(s)) THEN LStrip(Tail(s)) ELSE s

RECURSIVE RStrip(_)
RStrip(s) ==
    IF s = <<>> THEN <<>>
    ELSE IF IsSpace(s[Len(s)]) THEN RStrip(SubSeq(s, 1, Len(s) - 1)) ELSE s

Strip(s) == RStrip(LStrip(s))

StartsWith(s, p) == Len(s) >= Len(p) /\ SubSeq(s, 1, Len(p)) = p

\* p in s
Contains(s, p) ==
    \E i \in 1..(Len(s) - Len(p) + 1) : SubSeq(s, i, i + Len(p) - 1) = p

\* str.isdigit(): non-empty and every character a digit.
IsDigit(s) == s # <<>> /\ \A i \in 1..Len(s) : s[i] \in Digits

\* str.replace(old, new): leftmost non-overlapping occurrences.
RECURSIVE Replace(_, _, _)
Replace(s, old, new) ==
    IF s = <<>> THEN <<>>
    ELSE IF StartsWith(s, old)
         THEN new \o Replace(SubSeq(s, Len(old) + 1, Len(s)), old, new)
         ELSE <<Head(s)>> \o Replace(Tail(s), old, new)

\* Index of the first ">" in s at or after position i; 0 when there is none.
RECURSIVE FindGt(_, _)
FindGt(s, i) ==
    IF i > Len(s) THEN 0
    ELSE IF s[i] = ">" THEN i ELSE FindGt(s, i + 1)

\* re.sub(prefix + '[^>]{min,}>', '', s): a match starts with prefix, runs over
\* at least min characters other than ">" and ends at the first ">".
RECURSIVE SubTag(_, _, _)
SubTag(s, prefix, min) ==
    IF s = <<>> THEN <<>>
    ELSE LET g == FindGt(s, Len(prefix) + 1)
         IN  IF StartsWith(s, prefix) /\ g >= Len(prefix) + 1 + min
             THEN SubTag(SubSeq(s, g + 1, Len(s)), prefix, min)
             ELSE <<Head(s)>> \o SubTag(Tail(s), prefix, min)

\* sep.join(parts)
RECURSIVE Join(_, _)
Join(parts, sep) ==
    IF parts = <<>> THEN <<>>
    ELSE IF Len(parts) = 1 THEN parts[1]
    ELSE parts[1] \o sep \o Join(Tail(parts), sep)

\* str.splitlines() for the line terminator "\n": no trailing empty line.
RECURSIVE SplitLinesFrom(_, _)
SplitLinesFrom(s, acc) ==
    IF s = <<>> THEN (IF acc = <<>> THEN <<>> ELSE <<acc>>)
    ELSE IF Head(s) = "\n" THEN <<acc>> \o SplitLinesFrom(Tail(s), <<>>)
    ELSE SplitLinesFrom(Tail(s), Append(acc, Head(s)))

SplitLines(s) == SplitLinesFrom(s, <<>>)

(***************************************************************************)
(* vtt_to_plaintext: classification and cleaning of one line.              *)
(***************************************************************************)
Str_WEBVTT == <<"W", "E", "B", "V", "T", "T">>
Str_kind == <<"k", "i", "n", "d", ":">>
Str_language == <<"l", "a", "n", "g", "u", "a", "g", "e", ":">>
Str_style == <<"s", "t", "y", "l", "e">>
Str_note == <<"n", "o", "t", "e">>
Str_region == <<"r", "e", "g", "i", "o", "n">>
Str_arrow == <<"-", "-", ">">>

\* Mutant: the prefix test is case-sensitive.
IsHeaderLineCaseSensitive(line_stripped) ==
    \/ line_stripped = Str_WEBVTT
    \/ StartsWith(line_stripped, Str_kind)
    \/ StartsWith(line_stripped, Str_language)
    \/ StartsWith(line_stripped, Str_style)
    \/ StartsWith(line_stripped, Str_note)
    \/ StartsWith(line_stripped, Str_region)

\* The condition of the header/metadata branch.
IsHeaderLine(line_stripped) ==
    \/ line_stripped = Str_WEBVTT
    \/ StartsWith(Lower(line_stripped), Str_kind)
    \/ StartsWith(Lower(line_stripped), Str_language)
    \/ StartsWith(Lower(line_stripped), Str_style)
    \/ StartsWith(Lower(line_stripped), Str_note)
    \/ StartsWith(Lower(line_stripped), Str_region)

\* The condition of the timestamp branch.
IsTimestampLine(line_stripped) == Contains(line_stripped, Str_arrow)

\* The condition of the cue-number branch.
IsCueNumberLine(line_stripped, in_block) == IsDigit(line_stripped) /\ ~in_block

\* The branch of the loop body a line takes, tested in the order of the code.
LineBranch(line, in_block) ==
    LET line_stripped == Strip(line)
    IN  IF line_stripped = <<>> THEN "blank"
        ELSE IF IsHeaderLine(line_stripped) THEN "header"
        ELSE IF IsTimestampLine(line_stripped) THEN "timestamp"
        ELSE IF IsCueNumberLine(line_stripped, in_block) THEN "cue_number"
        ELSE IF in_block THEN "cue_text"
        ELSE "ignored"

\* The nine re.sub calls that remove tags, in order.
StripTags(line_stripped) ==
    LET s1 == SubTag(line_stripped, <<"<", "c", ".">>, 1)
        s2 == Replace(s1, <<"<", "/", "c", ">">>, <<>>)
        s3 == SubTag(s2, <<"<", "v">>, 0)
        s4 == Replace(s3, <<"<", "/", "v", ">">>, <<>>)
        s5 == Replace(s4, <<"<", "i", ">">>, <<>>)
        s6 == Replace(s5, <<"<", "/", "i", ">">>, <<>>)
        s7 == Replace(s6, <<"<", "b", ">">>, <<>>)
        s8 == Replace(s7, <<"<", "/", "b", ">">>, <<>>)
    IN  SubTag(s8, <<"<">>, 1)

\* The two lines of str.replace calls that decode entities, in order.
DecodeEntities(s) ==
    LET e1 == Replace(s, <<"&", "n", "b", "s", "p", ";">>, <<" ">>)
        e2 == Replace(e1, <<NBSP>>, <<" ">>)
        e3 == Replace(e2, <<"&", "a", "m", "p", ";">>, <<"&">>)
        e4 == Replace(e3, <<"&", "l", "t", ";">>, <<"<">>)
    IN  Replace(e4, <<"&", "g", "t", ";">>, <<">">>)

\* cleaned_line of a cue text line.
CleanLine(line_stripped) == DecodeEntities(StripTags(line_stripped))

\* Emission of the buffered cue: join, strip, append when non-empty.
FlushCue(segments, cue_lines) ==
    LET segment_text == Strip(Join(cue_lines, <<" ">>))
    IN  IF segment_text # <<>> THEN Append(segments, segment_text) ELSE segments

(***************************************************************************)
(* vtt_to_plaintext: the loop body, one operator per branch, on the record *)
(* [segs, cue, blk] = (collected_text_segments, current_cue_lines,         *)
(* in_cue_text_block).                                                     *)
(***************************************************************************)
ParseInit == [segs |-> <<>>, cue |-> <<>>, blk |-> FALSE]

\* Mutant: a blank line empties the buffer whether or not it was emitted.
OnBlankResetting(st) ==
    IF st.blk /\ st.cue # <<>>
    THEN [segs |-> FlushCue(st.segs, st.cue), cue |-> <<>>, blk |-> FALSE]
    ELSE [st EXCEPT !.cue = <<>>, !.blk = FALSE]

OnBlank(st) ==
    IF st.blk /\ st.cue # <<>>
    THEN [segs |-> FlushCue(st.segs, st.cue), cue |-> <<>>, blk |-> FALSE]
    ELSE [st EXCEPT !.blk = FALSE]

OnHeader(st) == [st EXCEPT !.blk = FALSE]

OnTimestamp(st) ==
    [segs |-> IF st.cue # <<>> THEN FlushCue(st.segs, st.cue) ELSE st.segs,
     cue |-> <<>>, blk |-> TRUE]

OnCueNumber(st) == st

OnCueText(st, line) ==
    LET cleaned_line == CleanLine(Strip(line))
    IN  IF Strip(cleaned_line) # <<>>
        THEN [st EXCEPT !.cue = Append(@, Strip(cleaned_line))]
        ELSE st

OnIgnored(st) == st

ParseLine(st, line) ==
    LET b == LineBranch(line, st.blk)
    IN  CASE b = "blank" -> OnBlank(st)
          [] b = "header" -> OnHeader(st)
          [] b = "timestamp" -> OnTimestamp(st)
          [] b = "cue_number" -> OnCueNumber(st)
          [] b = "cue_text" -> OnCueText(st, line)
          [] OTHER -> OnIgnored(st)

\* Mutant: the flush after the loop emits the buffer without testing it.
OnEndOfInputUnguarded(st) ==
    [st EXCEPT !.segs = Append(@, Strip(Join(st.cue, <<" ">>)))]

\* The flush after the loop.
OnEndOfInput(st) ==
    IF st.cue # <<>>
    THEN [st EXCEPT !.segs = FlushCue(st.segs, st.cue)]
    ELSE st

RECURSIVE ParseFrom(_, _)
ParseFrom(st, ls) ==
    IF ls = <<>> THEN st ELSE ParseFrom(ParseLine(st, Head(ls)), Tail(ls))

\* collected_text_segments when the deduplication stage is reached.
CollectSegments(ls) == OnEndOfInput(ParseFrom(ParseInit, ls)).segs

(***************************************************************************)
(* vtt_to_plaintext: deduplication and join.                               *)
(***************************************************************************)
\* Mutant: a segment is compared with every kept line, not only the last.
DedupStepGlobal(dedup, segment) ==
    IF \A k \in 1..Len(dedup) : dedup[k] # segment
    THEN Append(dedup, segment) ELSE dedup

\* One iteration of the deduplication loop.
DedupStep(dedup, segment) ==
    IF segment # dedup[Len(dedup)] THEN Append(dedup, segment) ELSE dedup

RECURSIVE DedupFrom(_, _, _)
DedupFrom(dedup, segments, i) ==
    IF i > Len(segments) THEN dedup
    ELSE DedupFrom(DedupStep(dedup, segments[i]), segments, i + 1)

Deduplicate(segments) ==
    IF segments = <<>> THEN <<>> ELSE DedupFrom(<<segments[1]>>, segments, 2)

FinalText(dedup) == Join(dedup, <<"\n">>)

\* The whole function, from the file content to the returned text.
VttToPlaintext(vtt_content) ==
    LET segments == CollectSegments(SplitLines(vtt_content))
    IN  IF segments = <<>> THEN <<>> ELSE FinalText(Deduplicate(segments))

(***************************************************************************)
(* State.                                                                  *)
(***************************************************************************)
VARIABLES
    \* vtt_to_plaintext
    lines,                      \* vtt_content.splitlines()
    idx,                        \* number of lines the loop has consumed
    collected_text_segments,
    current_cue_lines,
    in_cue_text_block,
    deduplicated_final_lines,
    dedup_i,                    \* next index of the deduplication loop
    final_text,                 \* <<>> until the function returns <<text>>
    vpc,                        \* position in vtt_to_plaintext
    \* history of the parsing loop: the input lines behind the buffered cue
    \* and behind each emitted segment
    cue_src,
    seg_src,
    \* process_video_details
    video_url,
    perform_audio_extraction,
    perform_transcript_extraction,
    info_dict,                  \* <<>>, or <<the metadata dictionary>>
    response,                   \* the result dictionary
    vtt_content,                \* <<>>, or <<the content read from the file>>
    downloaded_vtt_path,        \* None, or the language whose file it names
    requested_subs,             \* info_dict_subs['requested_subtitles']
    temp_dir,                   \* files '<temp_vtt_basename>.<lang>.vtt'
    pc,                         \* position in process_video_details
    \* history of one run
    calls,                      \* collaborator invocations, in order
    failures,                   \* failures observed, in order
    audio_outcome,
    transcript_outcome,
    remove_failed,              \* os.remove raised in the finally clause
    \* api_process_video_details_route
    http_response,              \* what the route handler answers
    \* the audio step of concurrent requests
    clock,                      \* datetime.now(), in ticks
    video_title,                \* per request: response["video_title"]
    request_folder_name,        \* per request: <<>> before it is computed
    output_template_audio_abs,  \* per request: path the audio is written to
    downloads,                  \* directories under DOWNLOADS_BASE_DIR
    rpc                         \* per request: position around the audio step

vttVars == <<lines, idx, collected_text_segments, current_cue_lines,
             in_cue_text_block, deduplicated_final_lines, dedup_i,
             final_text, vpc, cue_src, seg_src>>

orchVars == <<video_url, perform_audio_extraction,
              perform_transcript_extraction, info_dict, response, vtt_content,
              downloaded_vtt_path, requested_subs, temp_dir, pc, calls,
              failures, audio_outcome, transcript_outcome, remove_failed>>

routeVars == <<http_response>>

dirVars == <<clock, video_title, request_folder_name,
             output_template_audio_abs,
             downloads, rpc>>

vars == <<vttVars, orchVars, routeVars, dirVars>>

(***************************************************************************)
(* Inputs of the parsing loop: lines of each kind the loop distinguishes.  *)
(***************************************************************************)
L_webvtt == Str_WEBVTT
L_blank == <<>>
L_time == <<"0", "-", "-", ">", "1">>
L_num == <<"7">>
L_a == <<"a">>
L_note == <<"N", "o", "t", "e", " ", "c">>
L_tag == <<"<", "i", ">", "b", "<", "/", "i", ">">>
L_tagonly == <<"<", "b", ">">>

LineCatalogue ==
    {L_webvtt, L_blank, L_time, L_num, L_a, L_note, L_tag, L_tagonly}

SeqsUpTo(S, n) == UNION {[1..k -> S] : k \in 0..n}

(***************************************************************************)
(* process_video_details: values.                                          *)
(***************************************************************************)
None == "None"

\* The error strings the function records (variable parts left out).
E_MetadataDownload == "Failed to fetch initial video metadata"
E_MetadataUnexpected == "Unexpected error fetching initial video metadata"
E_NoFfmpeg == "FFmpeg not found, cannot extract audio."
E_AudioCode == "yt-dlp audio process failed"
E_AudioMissing == "Audio file not found post-processing"
E_AudioUnexpected == "Unexpected error during audio extraction"
E_NoTranscript == "Transcript VTT not found or not available in EN/RO."
E_SubsDownload == "yt-dlp DownloadError during transcript fetch"
E_SubsUnexpected == "Unexpected error during transcript processing"

\* The text stored for a URL that is not a YouTube URL.
UnsupportedText ==
    <<"Transcript extraction currently only supported for YouTube URLs by this endpoint.">>

Str_youtube == <<"y", "o", "u", "t", "u", "b", "e", ".", "c", "o", "m", "/">>
Url_youtube == <<"y", "o", "u", "t", "u", "b", "e", ".", "c", "o", "m", "/", "w">>
Url_short == <<"y", "o", "u", "t", "u", ".", "b", "e", "/", "w">>
Url_other == <<"v", "i", "m", "e", "o", ".", "c", "o", "m", "/", "1">>

Urls == {Url_youtube, Url_short, Url_other}

\* Mutant: any URL that mentions "youtu" is taken for a YouTube URL.
IsYoutubeUrlLoose(url) ==
    IF url # <<>> THEN Contains(url, <<"y", "o", "u", "t", "u">>) ELSE FALSE

\* is_youtube_url
IsYoutubeUrl(url) == IF url # <<>> THEN Contains(url, Str_youtube) ELSE FALSE

\* The subtitle languages asked for, in order.
SubtitlesLangs == <<"en", "ro">>
Langs == {"en", "ro"}

\* Shapes of a field of the metadata dictionary.
FieldShapes == {"missing", "null", "empty", "str"}

\* dict.get(key, default) on a field of shape sh holding text when a string.
DictGet(sh, text, default) ==
    CASE sh = "missing" -> default
      [] sh = "null" -> None
      [] sh = "empty" -> ""
      [] OTHER -> text

\* response["video_title"] after a successful lookup.
MetaTitle(info) == DictGet(info.title, "Title", "unknown_title_x")

\* response["author"] after a successful lookup.
MetaAuthor(info) ==
    DictGet(info.uploader, "Uploader",
            DictGet(info.channel, "Channel", "unknown_author_x"))

InfoDicts == [title : FieldShapes, uploader : FieldShapes, channel : FieldShapes]

\* Subtitle file contents the collaborator may write.
Doc_cues ==
    Join(<<L_webvtt, L_blank, L_time, L_a, L_blank, L_time, L_a, L_tag>>, <<"\n">>)
Doc_nocue == Join(<<L_webvtt, L_blank>>, <<"\n">>)

Docs == {Doc_cues, Doc_nocue}

\* A temporary area: per language no file (<<>>) or a file (<<content>>).
TempDirs == [Langs -> {<<>>} \cup {<<d>> : d \in Docs}]

\* os.path.exists of the subtitle file of a language.
Exists(dir, lang) == dir[lang] # <<>>

\* requested_subtitles: per language not named, named without a file path,
\* or named with the file path.
RequestedSubs == [Langs -> {"absent", "nopath", "path"}]

\* Mutant: an error always replaces the recorded one.
RecordErrorOverwriting(resp, msg) == [resp EXCEPT !.error = msg]

\* if not response["error"]: response["error"] = msg
RecordError(resp, msg) ==
    IF resp.error = None THEN [resp EXCEPT !.error = msg] ELSE resp

\* The first code of the preference list that is available, or None.
RECURSIVE FirstAvailable(_, _)
FirstAvailable(pref, avail) ==
    IF pref = <<>> THEN None
    ELSE IF avail[Head(pref)] THEN Head(pref)
    ELSE FirstAvailable(Tail(pref), avail)

\* The loop over requested_subs.
ResolveStructured(req, dir) ==
    IF \E l \in Langs : req[l] # "absent"
    THEN FirstAvailable(SubtitlesLangs,
                        [l \in Langs |-> req[l] = "path" /\ Exists(dir, l)])
    ELSE None

\* The directory scan.
ResolveByScan(dir) ==
    FirstAvailable(SubtitlesLangs, [l \in Langs |-> Exists(dir, l)])

\* Mutant: the scan is preferred to the structured response.
ResolveLanguageScanFirst(req, dir) ==
    IF ResolveByScan(dir) # None THEN ResolveByScan(dir)
    ELSE ResolveStructured(req, dir)

\* downloaded_vtt_path / transcript_language_detected after both lookups.
ResolveLanguage(req, dir) ==
    IF ResolveStructured(req, dir) # None THEN ResolveStructured(req, dir)
    ELSE ResolveByScan(dir)

FreshResponse ==
    [video_title |-> None, author |-> None, audio_download_url |-> None,
     audio_server_path |-> None, transcript_text |-> <<>>,
     transcript_language_detected |-> None, error |-> None]

\* The two concurrent requests of the audio-directory specification.
Requests == {1, 2}

\* No request is in or near the audio step.
DirIdle ==
    /\ clock = 0
    /\ video_title = [r \in Requests |-> <<>>]
    /\ request_folder_name = [r \in Requests |-> <<>>]
    /\ output_template_audio_abs = [r \in Requests |-> <<>>]
    /\ downloads = {}
    /\ rpc = [r \in Requests |-> "idle"]

\* No answer yet: the route handler has not returned.
NoResponse == [status |-> 0, mimetype |-> "none", text |-> <<>>]

OrchIdle ==
    /\ video_url = <<>>
    /\ perform_audio_extraction = FALSE
    /\ perform_transcript_extraction = FALSE
    /\ info_dict = <<>>
    /\ response = FreshResponse
    /\ vtt_content = <<>>
    /\ remove_failed = FALSE
    /\ downloaded_vtt_path = None
    /\ requested_subs = [l \in Langs |-> "absent"]
    /\ temp_dir = [l \in Langs |-> <<>>]
    /\ pc = "idle"
    /\ http_response = NoResponse
    /\ calls = <<>>
    /\ failures = <<>>
    /\ audio_outcome = None
    /\ transcript_outcome = None

VttIdle ==
    /\ lines = <<>>
    /\ idx = 0
    /\ collected_text_segments = <<>>
    /\ current_cue_lines = <<>>
    /\ in_cue_text_block = FALSE
    /\ deduplicated_final_lines = <<>>
    /\ dedup_i = 0
    /\ final_text = <<>>
    /\ cue_src = <<>>
    /\ seg_src = <<>>
    /\ vpc = "idle"

(***************************************************************************)
(* vtt_to_plaintext as a state machine: one action per branch of the loop  *)
(* body, then the flush after the loop, the early return and the           *)
(* deduplication loop.                                                     *)
(***************************************************************************)
ParseState ==
    [segs |-> collected_text_segments, cue |-> current_cue_lines,
     blk |-> in_cue_text_block]

\* The loop body applied to the next line.
LoopBody ==
    /\ LET new == ParseLine(ParseState, lines[idx + 1])
       IN  /\ collected_text_segments' = new.segs
           /\ current_cue_lines' = new.cue
           /\ in_cue_text_block' = new.blk
           /\ cue_src' = IF new.cue = <<>> THEN <<>>
                         ELSE IF Len(new.cue) > Len(current_cue_lines)
                              THEN Append(cue_src, idx + 1)
                              ELSE cue_src
           /\ seg_src' = IF Len(new.segs) > Len(collected_text_segments)
                         THEN Append(seg_src, cue_src)
                         ELSE seg_src
    /\ idx' = idx + 1
    /\ UNCHANGED <<lines, deduplicated_final_lines, dedup_i, final_text, vpc>>
    /\ UNCHANGED <<orchVars, routeVars, dirVars>>

BlankLine ==
    /\ vpc = "loop"
    /\ idx < Len(lines)
    /\ LineBranch(lines[idx + 1], in_cue_text_block) = "blank"
    /\ LoopBody

HeaderLine ==
    /\ vpc = "loop"
    /\ idx < Len(lines)
    /\ LineBranch(lines[idx + 1], in_cue_text_block) = "header"
    /\ LoopBody

TimestampLine ==
    /\ vpc = "loop"
    /\ idx < Len(lines)
    /\ LineBranch(lines[idx + 1], in_cue_text_block) = "timestamp"
    /\ LoopBody

CueNumberLine ==
    /\ vpc = "loop"
    /\ idx < Len(lines)
    /\ LineBranch(lines[idx + 1], in_cue_text_block) = "cue_number"
    /\ LoopBody

CueTextLine ==
    /\ vpc = "loop"
    /\ idx < Len(lines)
    /\ LineBranch(lines[idx + 1], in_cue_text_block) = "cue_text"
    /\ LoopBody

IgnoredLine ==
    /\ vpc = "loop"
    /\ idx < Len(lines)
    /\ LineBranch(lines[idx + 1], in_cue_text_block) = "ignored"
    /\ LoopBody


EndOfInput ==
    /\ vpc = "loop"
    /\ idx = Len(lines)
    /\ LET new == OnEndOfInput(ParseState)
       IN  /\ collected_text_segments' = new.segs
           /\ seg_src' = IF Len(new.segs) > Len(collected_text_segments)
                         THEN Append(seg_src, cue_src)
                         ELSE seg_src
    /\ vpc' = "parsed"
    /\ UNCHANGED <<lines, idx, current_cue_lines, in_cue_text_block,
                   deduplicated_final_lines, dedup_i, final_text, cue_src>>
    /\ UNCHANGED <<orchVars, routeVars, dirVars>>

ReturnEmpty ==
    /\ vpc = "parsed"
    /\ collected_text_segments = <<>>
    /\ final_text' = << <<>> >>
    /\ vpc' = "returned"
    /\ UNCHANGED <<lines, idx, collected_text_segments, current_cue_lines,
                   in_cue_text_block, deduplicated_final_lines, dedup_i,
                   cue_src, seg_src>>
    /\ UNCHANGED <<orchVars, routeVars, dirVars>>

DedupFirst ==
    /\ vpc = "parsed"
    /\ collected_text_segments # <<>>
    /\ deduplicated_final_lines' = <<collected_text_segments[1]>>
    /\ dedup_i' = 2
    /\ vpc' = "dedup"
    /\ UNCHANGED <<lines, idx, collected_text_segments, current_cue_lines,
                   in_cue_text_block, final_text, cue_src, seg_src>>
    /\ UNCHANGED <<orchVars, routeVars, dirVars>>

DedupLoop ==
    /\ vpc = "dedup"
    /\ dedup_i <= Len(collected_text_segments)
    /\ deduplicated_final_lines' =
           DedupStep(deduplicated_final_lines, collected_text_segments[dedup_i])
    /\ dedup_i' = dedup_i + 1
    /\ UNCHANGED <<lines, idx, collected_text_segments, current_cue_lines,
                   in_cue_text_block, final_text, vpc, cue_src, seg_src>>
    /\ UNCHANGED <<orchVars, routeVars, dirVars>>

JoinFinal ==
    /\ vpc = "dedup"
    /\ dedup_i > Len(collected_text_segments)
    /\ final_text' = <<FinalText(deduplicated_final_lines)>>
    /\ vpc' = "returned"
    /\ UNCHANGED <<lines, idx, collected_text_segments, current_cue_lines,
                   in_cue_text_block, deduplicated_final_lines, dedup_i,
                   cue_src, seg_src>>
    /\ UNCHANGED <<orchVars, routeVars, dirVars>>

\* Specification of the parsing loop: every input of at most MaxLines lines.
InitVtt ==
    /\ lines \in SeqsUpTo(LineCatalogue, MaxLines)
    /\ idx = 0
    /\ collected_text_segments = <<>>
    /\ current_cue_lines = <<>>
    /\ in_cue_text_block = FALSE
    /\ deduplicated_final_lines = <<>>
    /\ dedup_i = 0
    /\ final_text = <<>>
    /\ cue_src = <<>>
    /\ seg_src = <<>>
    /\ vpc = "loop"
    /\ OrchIdle
    /\ DirIdle

NextVtt ==
    \/ BlankLine
    \/ HeaderLine
    \/ TimestampLine
    \/ CueNumberLine
    \/ CueTextLine
    \/ IgnoredLine
    \/ EndOfInput
    \/ ReturnEmpty
    \/ DedupFirst
    \/ DedupLoop
    \/ JoinFinal

SpecVtt == InitVtt /\ [][NextVtt]_vars

\* Specification of the conversion on cue text made of markup, entities and
\* malformed tags: every input of at most MaxLines lines of this catalogue.
L_entity == <<"&", "n", "b", "s", "p", ";">>
L_malformed == <<"<", "<", "b", ">", ">">>

MarkupCatalogue ==
    {L_webvtt, L_blank, L_time, L_num, L_a, L_tagonly, L_entity, L_malformed}

InitVttMarkup ==
    /\ lines \in SeqsUpTo(MarkupCatalogue, MaxLines)
    /\ idx = 0
    /\ collected_text_segments = <<>>
    /\ current_cue_lines = <<>>
    /\ in_cue_text_block = FALSE
    /\ deduplicated_final_lines = <<>>
    /\ dedup_i = 0
    /\ final_text = <<>>
    /\ cue_src = <<>>
    /\ seg_src = <<>>
    /\ vpc = "loop"
    /\ OrchIdle
    /\ DirIdle

SpecVttMarkup == InitVttMarkup /\ [][NextVtt]_vars

\* Specification of the deduplication stage: every segment sequence of at
\* most MaxSegs segments, as the parsing loop leaves it.
S_a == <<"a">>
S_b == <<"b">>
S_ab == <<"a", " ", "b">>

SegmentCatalogue == {S_a, S_b, S_ab}

InitDedup ==
    /\ lines = <<>>
    /\ idx = 0
    /\ collected_text_segments \in SeqsUpTo(SegmentCatalogue, MaxSegs)
    /\ current_cue_lines = <<>>
    /\ in_cue_text_block = FALSE
    /\ deduplicated_final_lines = <<>>
    /\ dedup_i = 0
    /\ final_text = <<>>
    /\ cue_src = <<>>
    /\ seg_src = <<>>
    /\ vpc = "parsed"
    /\ OrchIdle
    /\ DirIdle

NextDedup ==
    \/ ReturnEmpty
    \/ DedupFirst
    \/ DedupLoop
    \/ JoinFinal

SpecDedup == InitDedup /\ [][NextDedup]_vars

(***************************************************************************)
(* process_video_details as a state machine.  pc names the step about to   *)
(* run: "metadata", "audio", "transcript", then inside the transcript      *)
(* step "resolve", "read" and "cleanup" (the finally clause), and "done"   *)
(* once the function has returned.                                         *)
(***************************************************************************)
Fail(msg) == failures' = Append(failures, msg)

\* --- metadata lookup ---
MetadataFetched ==
    /\ pc = "metadata"
    /\ \E info \in InfoDicts :
           /\ info_dict' = <<info>>
           /\ response' = [response EXCEPT !.video_title = MetaTitle(info),
                                            !.author = MetaAuthor(info)]
    /\ calls' = Append(calls, "extract_info")
    /\ pc' = "audio"
    /\ UNCHANGED <<video_url, perform_audio_extraction,
                   perform_transcript_extraction, vtt_content,
                   downloaded_vtt_path, requested_subs, temp_dir, failures,
                   audio_outcome, transcript_outcome, remove_failed>>
    /\ UNCHANGED <<vttVars, routeVars, dirVars>>

\* Mutant: after a failed lookup the function goes on to the audio step.
MetadataAbortContinuing(msg) ==
    /\ pc = "metadata"
    /\ response' = [response EXCEPT !.error = msg]
    /\ calls' = Append(calls, "extract_info")
    /\ Fail(msg)
    /\ pc' = "audio"
    /\ UNCHANGED <<video_url, perform_audio_extraction,
                   perform_transcript_extraction, info_dict, vtt_content,
                   downloaded_vtt_path, requested_subs, temp_dir,
                   audio_outcome, transcript_outcome, remove_failed>>
    /\ UNCHANGED <<vttVars, routeVars, dirVars>>

\* The lookup fails with msg: the function returns at once.
MetadataAbort(msg) ==
    /\ pc = "metadata"
    /\ response' = [response EXCEPT !.error = msg]
    /\ calls' = Append(calls, "extract_info")
    /\ Fail(msg)
    /\ pc' = "done"
    /\ UNCHANGED <<video_url, perform_audio_extraction,
                   perform_transcript_extraction, info_dict, vtt_content,
                   downloaded_vtt_path, requested_subs, temp_dir,
                   audio_outcome, transcript_outcome, remove_failed>>
    /\ UNCHANGED <<vttVars, routeVars, dirVars>>

MetadataDownloadError == MetadataAbort(E_MetadataDownload) /\ pc = "metadata"

MetadataUnexpectedError == MetadataAbort(E_MetadataUnexpected) /\ pc = "metadata"

\* --- audio extraction ---
AudioFrame ==
    /\ UNCHANGED <<video_url, perform_audio_extraction,
                   perform_transcript_extraction, info_dict, vtt_content,
                   downloaded_vtt_path, requested_subs, temp_dir,
                   transcript_outcome, remove_failed>>
    /\ UNCHANGED <<vttVars, routeVars, dirVars>>

AudioNotRequested ==
    /\ pc = "audio"
    /\ ~perform_audio_extraction
    /\ pc' = "transcript"
    /\ UNCHANGED <<response, calls, failures, audio_outcome>>
    /\ AudioFrame

AudioNoFfmpeg ==
    /\ pc = "audio"
    /\ perform_audio_extraction
    /\ response' = RecordError(response, E_NoFfmpeg)
    /\ calls' = Append(calls, "is_ffmpeg_available")
    /\ Fail(E_NoFfmpeg)
    /\ audio_outcome' = "no_ffmpeg"
    /\ pc' = "transcript"
    /\ AudioFrame

\* is_ffmpeg_available() raises: the call is outside every try block, so
\* the fault leaves process_video_details and the route handler.
AudioFfmpegCheckFault ==
    /\ pc = "audio"
    /\ perform_audio_extraction
    /\ calls' = Append(calls, "is_ffmpeg_available")
    /\ audio_outcome' = "escaped"
    /\ pc' = "raised"
    /\ UNCHANGED <<response, failures>>
    /\ AudioFrame

\* Mutant: a download that returned a non-zero code is tried a second time.
AudioDownloadFailedRetrying ==
    /\ pc = "audio"
    /\ perform_audio_extraction
    /\ response' = RecordError(response, E_AudioCode)
    /\ calls' = calls \o <<"is_ffmpeg_available", "download", "download">>
    /\ Fail(E_AudioCode)
    /\ audio_outcome' = "bad_code"
    /\ pc' = "transcript"
    /\ AudioFrame

\* download() returns a non-zero code.
AudioDownloadFailed ==
    /\ pc = "audio"
    /\ perform_audio_extraction
    /\ response' = RecordError(response, E_AudioCode)
    /\ calls' = calls \o <<"is_ffmpeg_available", "download">>
    /\ Fail(E_AudioCode)
    /\ audio_outcome' = "bad_code"
    /\ pc' = "transcript"
    /\ AudioFrame

\* download() returns 0 and the audio file exists.
AudioExtracted ==
    /\ pc = "audio"
    /\ perform_audio_extraction
    /\ response' = [response EXCEPT !.audio_server_path = "audio_path",
                                    !.audio_download_url = "audio_url"]
    /\ calls' = calls \o <<"is_ffmpeg_available", "download">>
    /\ audio_outcome' = "ok"
    /\ pc' = "transcript"
    /\ UNCHANGED failures
    /\ AudioFrame

\* download() returns 0 and the audio file does not exist.
AudioFileMissing ==
    /\ pc = "audio"
    /\ perform_audio_extraction
    /\ response' = [RecordError(response, E_AudioMissing)
                        EXCEPT !.audio_server_path = None]
    /\ calls' = calls \o <<"is_ffmpeg_available", "download">>
    /\ Fail(E_AudioMissing)
    /\ audio_outcome' = "missing"
    /\ pc' = "transcript"
    /\ AudioFrame

\* makedirs raises (before the download) or download() raises.
AudioFaultBeforePath ==
    /\ pc = "audio"
    /\ perform_audio_extraction
    /\ response' = RecordError(response, E_AudioUnexpected)
    /\ \E downloading \in BOOLEAN :
           calls' = calls \o (IF downloading
                              THEN <<"is_ffmpeg_available", "download">>
                              ELSE <<"is_ffmpeg_available">>)
    /\ Fail(E_AudioUnexpected)
    /\ audio_outcome' = "fault"
    /\ pc' = "transcript"
    /\ AudioFrame

\* url_for raises: audio_server_path has been assigned already.
AudioFaultUrlFor ==
    /\ pc = "audio"
    /\ perform_audio_extraction
    /\ response' = [RecordError(response, E_AudioUnexpected)
                        EXCEPT !.audio_server_path = "audio_path"]
    /\ calls' = calls \o <<"is_ffmpeg_available", "download">>
    /\ Fail(E_AudioUnexpected)
    /\ audio_outcome' = "fault"
    /\ pc' = "transcript"
    /\ AudioFrame

\* --- transcript extraction ---
TranscriptFrame ==
    /\ UNCHANGED <<video_url, perform_audio_extraction,
                   perform_transcript_extraction, info_dict, audio_outcome>>
    /\ UNCHANGED <<vttVars, routeVars, dirVars>>

\* Mutant: a recorded error makes the function skip the transcript step.
TranscriptBranchUnlessError ==
    IF response.error # None THEN "skip"
    ELSE IF perform_transcript_extraction /\ IsYoutubeUrl(video_url) THEN "extract"
    ELSE IF perform_transcript_extraction /\ ~IsYoutubeUrl(video_url) THEN "unsupported"
    ELSE "skip"

\* The branch of the if/elif that follows the audio step.
TranscriptBranch ==
    IF perform_transcript_extraction /\ IsYoutubeUrl(video_url) THEN "extract"
    ELSE IF perform_transcript_extraction /\ ~IsYoutubeUrl(video_url) THEN "unsupported"
    ELSE "skip"

TranscriptNotRequested ==
    /\ pc = "transcript"
    /\ TranscriptBranch = "skip"
    /\ pc' = "done"
    /\ UNCHANGED <<response, vtt_content, downloaded_vtt_path,
                   requested_subs, temp_dir, calls, failures,
                   transcript_outcome, remove_failed>>
    /\ TranscriptFrame

\* The elif branch: a URL that is not a YouTube URL.
TranscriptUnsupported ==
    /\ pc = "transcript"
    /\ TranscriptBranch = "unsupported"
    /\ response' = [response EXCEPT !.transcript_text = <<UnsupportedText>>]
    /\ transcript_outcome' = "unsupported"
    /\ pc' = "done"
    /\ UNCHANGED <<vtt_content, downloaded_vtt_path, requested_subs,
                   temp_dir, calls, failures, remove_failed>>
    /\ TranscriptFrame

\* extract_info(download=True) returns: it has written some subtitle files
\* and names some of them in requested_subtitles.
SubtitleDownloadReturns ==
    /\ pc = "transcript"
    /\ TranscriptBranch = "extract"
    /\ temp_dir' \in TempDirs
    /\ requested_subs' \in RequestedSubs
    /\ calls' = Append(calls, "extract_info_subtitles")
    /\ pc' = "resolve"
    /\ UNCHANGED <<response, vtt_content, downloaded_vtt_path, failures,
                   transcript_outcome, remove_failed>>
    /\ TranscriptFrame

\* extract_info(download=True) raises, possibly after writing files.
SubtitleDownloadRaises(msg) ==
    /\ pc = "transcript"
    /\ TranscriptBranch = "extract"
    /\ temp_dir' \in TempDirs
    /\ response' = RecordError(response, msg)
    /\ calls' = Append(calls, "extract_info_subtitles")
    /\ Fail(msg)
    /\ transcript_outcome' = "download_raised"
    /\ pc' = "cleanup"
    /\ UNCHANGED <<vtt_content, downloaded_vtt_path, requested_subs,
                   remove_failed>>
    /\ TranscriptFrame

SubtitleDownloadError == SubtitleDownloadRaises(E_SubsDownload) /\ pc = "transcript"

SubtitleUnexpectedError == SubtitleDownloadRaises(E_SubsUnexpected) /\ pc = "transcript"

\* The two lookups find a subtitle file.
LanguageResolved ==
    /\ pc = "resolve"
    /\ ResolveLanguage(requested_subs, temp_dir) # None
    /\ downloaded_vtt_path' = ResolveLanguage(requested_subs, temp_dir)
    /\ response' = [response EXCEPT !.transcript_language_detected =
                        ResolveLanguage(requested_subs, temp_dir)]
    /\ pc' = "read"
    /\ UNCHANGED <<vtt_content, requested_subs, temp_dir, calls, failures,
                   transcript_outcome, remove_failed>>
    /\ TranscriptFrame

\* The two lookups find nothing.
LanguageNotFound ==
    /\ pc = "resolve"
    /\ ResolveLanguage(requested_subs, temp_dir) = None
    /\ response' = RecordError(response, E_NoTranscript)
    /\ Fail(E_NoTranscript)
    /\ transcript_outcome' = "not_found"
    /\ pc' = "cleanup"
    /\ UNCHANGED <<vtt_content, downloaded_vtt_path, requested_subs,
                   temp_dir, calls, remove_failed>>
    /\ TranscriptFrame

\* response["transcript_text"] from the content read.
TranscriptOf(content) == VttToPlaintext(content)

\* The file is read and converted.
TranscriptParsed ==
    /\ pc = "read"
    /\ vtt_content' = temp_dir[downloaded_vtt_path]
    /\ response' = [response EXCEPT !.transcript_text =
                        <<TranscriptOf(temp_dir[downloaded_vtt_path][1])>>]
    /\ transcript_outcome' = "parsed"
    /\ pc' = "cleanup"
    /\ UNCHANGED <<downloaded_vtt_path, requested_subs, temp_dir, calls,
                   failures, remove_failed>>
    /\ TranscriptFrame

\* open() or read() raises.
TranscriptReadFault ==
    /\ pc = "read"
    /\ response' = RecordError(response, E_SubsUnexpected)
    /\ Fail(E_SubsUnexpected)
    /\ transcript_outcome' = "read_raised"
    /\ pc' = "cleanup"
    /\ UNCHANGED <<vtt_content, downloaded_vtt_path, requested_subs,
                   temp_dir, calls, remove_failed>>
    /\ TranscriptFrame

\* The temporary area after the finally clause, when os.remove succeeds.
FilesAfterCleanup(dir, path) ==
    IF path # None /\ Exists(dir, path)
    THEN [dir EXCEPT ![path] = <<>>]
    ELSE dir

\* The finally clause, then the return.
Cleanup ==
    /\ pc = "cleanup"
    /\ temp_dir' = FilesAfterCleanup(temp_dir, downloaded_vtt_path)
    /\ pc' = "done"
    /\ UNCHANGED <<response, vtt_content, downloaded_vtt_path,
                   requested_subs, calls, failures, transcript_outcome,
                   remove_failed>>
    /\ TranscriptFrame

\* The finally clause when os.remove raises: logged, the file stays.
CleanupRemoveFault ==
    /\ pc = "cleanup"
    /\ downloaded_vtt_path # None
    /\ Exists(temp_dir, downloaded_vtt_path)
    /\ remove_failed' = TRUE
    /\ pc' = "done"
    /\ UNCHANGED <<response, vtt_content, downloaded_vtt_path,
                   requested_subs, temp_dir, calls, failures,
                   transcript_outcome>>
    /\ TranscriptFrame

(***************************************************************************)
(* api_process_video_details_route: the handler of /api/process_video_     *)
(* details.  It starts at pc = "request", calls process_video_details      *)
(* unless the url parameter is missing, and answers at pc = "responded".   *)
(***************************************************************************)
\* request.args.get(name, default).lower() == 'true', for a parameter that
\* is absent (<<>>) or present with some text.
Str_true == <<"t", "r", "u", "e">>
Str_false == <<"f", "a", "l", "s", "e">>

QueryArgs == {<<>>, <<Str_true>>, << <<"T", "R", "U", "E">> >>,
              <<Str_false>>, << <<"1">> >>}

QueryFlag(arg, default) ==
    Lower(IF arg = <<>> THEN default ELSE arg[1]) = Str_true

\* Default of get_transcript: 'true' for a YouTube URL, else 'false'.
TranscriptDefault(url) == IF IsYoutubeUrl(url) THEN Str_true ELSE Str_false

\* Python truth value of result.get("transcript_text").
Truthy(text) == text # <<>> /\ text[1] # <<>>

\* The condition of the plain-text return.
PlainTextCase(perform_transcript, perform_audio, result) ==
    /\ perform_transcript
    /\ ~perform_audio
    /\ Truthy(result.transcript_text)
    /\ result.error = None

\* critical_error_occured
CriticalError(result) ==
    /\ result.error # None
    /\ ~(result.audio_download_url # None \/ Truthy(result.transcript_text))

StatusCode(result) == IF CriticalError(result) THEN 500 ELSE 200

RouteFrame ==
    /\ UNCHANGED <<video_url, perform_audio_extraction,
                   perform_transcript_extraction, info_dict, response,
                   vtt_content, downloaded_vtt_path, requested_subs,
                   temp_dir, calls, failures, audio_outcome,
                   transcript_outcome, remove_failed>>
    /\ UNCHANGED <<vttVars, dirVars>>

\* No url parameter: 400, process_video_details is not called.
RouteMissingUrl ==
    /\ pc = "request"
    /\ video_url = <<>>
    /\ http_response' = [status |-> 400, mimetype |-> "application/json",
                         text |-> <<>>]
    /\ pc' = "responded"
    /\ RouteFrame

\* The call of process_video_details.
RouteCalls ==
    /\ pc = "request"
    /\ video_url # <<>>
    /\ pc' = "metadata"
    /\ UNCHANGED http_response
    /\ RouteFrame

\* The transcript returned as text/plain.
RoutePlainText ==
    /\ pc = "done"
    /\ PlainTextCase(perform_transcript_extraction,
                     perform_audio_extraction, response)
    /\ http_response' = [status |-> 200, mimetype |-> "text/plain",
                         text |-> response.transcript_text]
    /\ pc' = "responded"
    /\ RouteFrame

\* jsonify(result) with the status code.
RouteJson ==
    /\ pc = "done"
    /\ ~PlainTextCase(perform_transcript_extraction,
                      perform_audio_extraction, response)
    /\ http_response' = [status |-> StatusCode(response),
                         mimetype |-> "application/json", text |-> <<>>]
    /\ pc' = "responded"
    /\ RouteFrame

\* Specification of one request: the route handler and the run of
\* process_video_details it makes.
Init ==
    /\ VttIdle
    /\ DirIdle
    /\ video_url \in Urls \cup {<<>>}
    /\ perform_audio_extraction \in
           {QueryFlag(a, Str_true) : a \in QueryArgs}
    /\ perform_transcript_extraction \in
           {QueryFlag(a, TranscriptDefault(video_url)) : a \in QueryArgs}
    /\ info_dict = <<>>
    /\ response = FreshResponse
    /\ vtt_content = <<>>
    /\ remove_failed = FALSE
    /\ downloaded_vtt_path = None
    /\ requested_subs = [l \in Langs |-> "absent"]
    /\ temp_dir = [l \in Langs |-> <<>>]
    /\ pc = "request"
    /\ http_response = NoResponse
    /\ calls = <<>>
    /\ failures = <<>>
    /\ audio_outcome = None
    /\ transcript_outcome = None

Next ==
    \/ RouteMissingUrl
    \/ RouteCalls
    \/ RoutePlainText
    \/ RouteJson
    \/ MetadataFetched
    \/ MetadataDownloadError
    \/ MetadataUnexpectedError
    \/ AudioNotRequested
    \/ AudioNoFfmpeg
    \/ AudioFfmpegCheckFault
    \/ AudioDownloadFailed
    \/ AudioExtracted
    \/ AudioFileMissing
    \/ AudioFaultBeforePath
    \/ AudioFaultUrlFor
    \/ TranscriptNotRequested
    \/ TranscriptUnsupported
    \/ SubtitleDownloadReturns
    \/ SubtitleDownloadError
    \/ SubtitleUnexpectedError
    \/ LanguageResolved
    \/ LanguageNotFound
    \/ TranscriptParsed
    \/ TranscriptReadFault
    \/ Cleanup
    \/ CleanupRemoveFault

Spec == Init /\ [][Next]_vars

(***************************************************************************)
(* Properties of process_video_details.                                    *)
(***************************************************************************)
MetadataErrors == {E_MetadataDownload, E_MetadataUnexpected}
AudioErrors == {E_NoFfmpeg, E_AudioCode, E_AudioMissing, E_AudioUnexpected}

\* The run is past a successful metadata lookup.
MetadataSucceeded == info_dict # <<>>

\* The run has returned after entering the transcript extraction branch.
TranscriptAttempted ==
    transcript_outcome \in {"download_raised", "not_found", "parsed", "read_raised"}

\* C1: once the function has returned after a transcript extraction attempt
\* (whatever its outcome, os.remove not having failed), no subtitle file
\* carrying the request's temporary basename is left in the temporary area.
C1_NoTempFileRemains ==
    (pc = "done" /\ TranscriptAttempted /\ ~remove_failed)
        => \A l \in Langs : ~Exists(temp_dir, l)

\* C2: the error field always holds the first failure observed: a later
\* failure never replaces it, and a transcript step that succeeds after a
\* failed audio step stores its text and language and leaves the error.
C2_FirstErrorWins ==
    /\ response.error = (IF failures = <<>> THEN None ELSE failures[1])
    /\ (MetadataSucceeded /\ transcript_outcome = "parsed")
           => /\ response.transcript_text # <<>>
              /\ response.transcript_language_detected # None
              /\ (audio_outcome \in {"no_ffmpeg", "bad_code", "missing", "fault"}
                      => response.error \in AudioErrors)

\* C2 witness: the audio step failed, then the transcript step failed too,
\* and the returned error is the one of the audio step.
C2_Witness ==
    /\ pc = "done"
    /\ MetadataSucceeded
    /\ failures = <<E_AudioCode, E_NoTranscript>>
    /\ response.error = E_AudioCode

\* C3: a failed metadata lookup ends the run at once: the error is set, no
\* other field of the result is populated, and the lookup is the only
\* collaborator invocation of the run, whatever the flags.
C3_MetadataFailureAborts ==
    (failures # <<>> /\ failures[1] \in MetadataErrors)
        => /\ pc \in {"done", "responded"}
           /\ response = [FreshResponse EXCEPT !.error = failures[1]]
           /\ calls = <<"extract_info">>
           /\ audio_outcome = None
           /\ transcript_outcome = None

\* C3 witness: audio requested, transcript not requested, lookup failed.
C3_Witness ==
    /\ pc = "done"
    /\ perform_audio_extraction
    /\ ~perform_transcript_extraction
    /\ response.error = E_MetadataDownload

\* Number of occurrences of a call in the history.
CallCount(c) == Cardinality({i \in 1..Len(calls) : calls[i] = c})

C5_TranscriptIsConvertedTrack ==
    response.transcript_text # <<>>
        => /\ vtt_content # <<>>
           /\ response.transcript_text = <<VttToPlaintext(vtt_content[1])>>

\* The language the claim expects from a structured response and a set of
\* files: the structured response first, the expected file names second.
ExpectedLanguage(req, dir) ==
    LET named == {l \in Langs : req[l] = "path" /\ dir[l] # <<>>}
        found == {l \in Langs : dir[l] # <<>>}
    IN  IF "en" \in named THEN "en"
        ELSE IF "ro" \in named THEN "ro"
        ELSE IF "en" \in found THEN "en"
        ELSE IF "ro" \in found THEN "ro"
        ELSE None

\* C6: the recorded language is None, 'en' or 'ro'; after the subtitle
\* download returned it is the first of ['en','ro'] the structured response
\* names with an existing file, else the first of ['en','ro'] whose expected
\* file exists, else None; it is None when the download raised.
C6_LanguageResolution ==
    /\ response.transcript_language_detected \in {None, "en", "ro"}
    /\ (pc = "read" \/ (pc = "cleanup" /\ transcript_outcome # "download_raised"))
           => response.transcript_language_detected =
                  ExpectedLanguage(requested_subs, temp_dir)
    /\ (pc \in {"metadata", "audio", "transcript", "resolve"}
            \/ transcript_outcome \in {"unsupported", "download_raised"}
            \/ (pc = "done" /\ transcript_outcome = None))
           => response.transcript_language_detected = None
    /\ pc = "done" => response.transcript_language_detected = downloaded_vtt_path

\* C6 witness: the structured response names only 'ro' with its file while
\* the file of 'en' exists too: 'ro' is recorded.
C6_Witness ==
    /\ pc = "read"
    /\ requested_subs = [l \in Langs |-> IF l = "ro" THEN "path" ELSE "absent"]
    /\ \A l \in Langs : Exists(temp_dir, l)
    /\ response.transcript_language_detected = "ro"

\* C7: transcript only, YouTube URL, metadata found, no 'en' or 'ro'
\* subtitles from either source: no transcript text, no language, the 'no
\* subtitles' error, and title and author populated.
C7_NoSubtitles ==
    (pc = "done" /\ ~perform_audio_extraction /\ perform_transcript_extraction
        /\ IsYoutubeUrl(video_url) /\ MetadataSucceeded
        /\ transcript_outcome = "not_found")
        => /\ response.transcript_text = <<>>
           /\ response.transcript_language_detected = None
           /\ response.error = E_NoTranscript
           /\ response.video_title \notin {None, ""}
           /\ response.author \notin {None, ""}

(***************************************************************************)
(* Properties of vtt_to_plaintext.                                         *)
(***************************************************************************)
IsBlank(line) == Strip(line) = <<>>

\* A header or metadata line, as the claims define it.
HeaderOrMetadataLine(line) ==
    LET t == Strip(line)
        low == Lower(t)
    IN  \/ t = <<"W", "E", "B", "V", "T", "T">>
        \/ \E p \in {<<"k", "i", "n", "d", ":">>,
                     <<"l", "a", "n", "g", "u", "a", "g", "e", ":">>,
                     <<"s", "t", "y", "l", "e">>,
                     <<"n", "o", "t", "e">>,
                     <<"r", "e", "g", "i", "o", "n">>} :
               Len(low) >= Len(p) /\ SubSeq(low, 1, Len(p)) = p

\* A time-range marker line.
TimeRangeLine(line) == Contains(Strip(line), <<"-", "-", ">">>)

\* The maximal runs of non-blank lines of an input.
RECURSIVE BlocksFrom(_, _)
BlocksFrom(ls, acc) ==
    IF ls = <<>> THEN (IF acc = <<>> THEN <<>> ELSE <<acc>>)
    ELSE IF IsBlank(Head(ls))
         THEN (IF acc = <<>> THEN <<>> ELSE <<acc>>) \o BlocksFrom(Tail(ls), <<>>)
         ELSE BlocksFrom(Tail(ls), Append(acc, Head(ls)))

Blocks(ls) == BlocksFrom(ls, <<>>)

\* The cleaned text of a text line of a cue.
CleanedText(line) == Strip(CleanLine(Strip(line)))

\* A cue: a time-range marker line, then one or more text lines, each with
\* non-empty cleaned text.
IsCue(b) ==
    /\ Len(b) >= 2
    /\ TimeRangeLine(b[1])
    /\ \A i \in 2..Len(b) :
           /\ ~TimeRangeLine(b[i])
           /\ Strip(b[i]) # <<"W", "E", "B", "V", "T", "T">>
           /\ CleanedText(b[i]) # <<>>

\* Cue-formatted input: an optional WEBVTT header block, then cues, all
\* separated by blank lines.
CueFormatted(ls) ==
    LET bs == Blocks(ls)
    IN  \A k \in 1..Len(bs) : IsCue(bs[k]) \/ (k = 1 /\ bs[k] = <<L_webvtt>>)

\* The cues of a cue-formatted input, in order.
Cues(ls) == SelectSeq(Blocks(ls), IsCue)

\* The segment a cue stands for: its cleaned text lines joined by spaces.
CueSegment(b) == Join([i \in 1..(Len(b) - 1) |-> CleanedText(b[i + 1])], <<" ">>)

\* C8: for a cue-formatted input of N cues with non-empty text, the
\* segments collected by the parsing loop are the N cue texts, in order,
\* also for cues whose text begins with 'note', 'style' or 'region'.
C8_OneSegmentPerCue ==
    (vpc = "parsed" /\ CueFormatted(lines))
        => collected_text_segments =
               [k \in 1..Len(Cues(lines)) |-> CueSegment(Cues(lines)[k])]

\* A bare cue-index line: an all-digit line directly before a time-range
\* marker (and not itself the first text line under a time-range marker).
BareCueIndex(ls, i) ==
    /\ IsDigit(Strip(ls[i]))
    /\ i < Len(ls)
    /\ TimeRangeLine(ls[i + 1])
    /\ (i = 1 \/ ~TimeRangeLine(ls[i - 1]))

\* The input lines that contributed text to an emitted segment.
Contributing == UNION {{seg_src[k][j] : j \in 1..Len(seg_src[k])} : k \in 1..Len(seg_src)}

\* C9 as claimed: no header or metadata line and no bare cue-index line
\* contributes text to a segment, for every input.
C9_NoHeaderNoCueIndex ==
    \A i \in Contributing :
        /\ ~HeaderOrMetadataLine(lines[i])
        /\ ~BareCueIndex(lines, i)

\* C9 as amended: no header or metadata line contributes text to a
\* segment, and no bare cue-index line that directly follows a blank line,
\* a header or metadata line or the start of the input does.
C9_NoHeaderNoLeadingCueIndex ==
    \A i \in Contributing :
        /\ ~HeaderOrMetadataLine(lines[i])
        /\ ~(/\ BareCueIndex(lines, i)
             /\ (i = 1 \/ IsBlank(lines[i - 1]) \/ HeaderOrMetadataLine(lines[i - 1])))

\* C9 witness: a header, a cue index and a cue: only the cue text line
\* contributes to the one segment.
C9_Witness ==
    /\ vpc = "parsed"
    /\ lines = <<L_webvtt, L_num, L_time, L_a>>
    /\ collected_text_segments = <<L_a>>
    /\ Contributing = {4}

\* The segments that differ from their immediate predecessor.
RECURSIVE KeptFrom(_, _)
KeptFrom(segs, i) ==
    IF i > Len(segs) THEN <<>>
    ELSE (IF i = 1 \/ segs[i] # segs[i - 1] THEN <<segs[i]>> ELSE <<>>)
             \o KeptFrom(segs, i + 1)

\* C10: the deduplication stage returns, joined by newlines and in order,
\* exactly the segments that differ from their immediate predecessor: no two
\* adjacent output lines are equal, the empty sequence gives the empty text
\* and ['a','a','b','a'] gives 'a\nb\na'.
C10_AdjacentDuplicatesCollapse ==
    vpc = "returned"
        => /\ final_text = <<Join(KeptFrom(collected_text_segments, 1), <<"\n">>)>>
           /\ LET out == SplitLines(final_text[1])
              IN  \A k \in 1..(Len(out) - 1) : out[k] # out[k + 1]
           /\ collected_text_segments = <<>> => final_text = << <<>> >>
           /\ collected_text_segments = <<S_a, S_a, S_b, S_a>>
                  => final_text = << <<"a", "\n", "b", "\n", "a">> >>

\* C10 witness: ['a','a','b','a'] has been deduplicated and joined.
C10_Witness ==
    /\ vpc = "returned"
    /\ collected_text_segments = <<S_a, S_a, S_b, S_a>>
    /\ final_text = << <<"a", "\n", "b", "\n", "a">> >>


(***************************************************************************)
(* The route handler's answer.                                             *)
(***************************************************************************)
\* The route handler has answered a request it passed to
\* process_video_details.
Answered == pc = "responded" /\ calls # <<>>

\* An audio artifact was produced for the caller.
AudioArtifact == response.audio_download_url # None

\* A transcript was extracted from a subtitle file.
TranscriptExtracted ==
    transcript_outcome = "parsed" /\ Truthy(response.transcript_text)

\* C11: the answer is 500 exactly when an error was recorded and neither an
\* audio artifact nor an extracted transcript was produced, and 200
\* otherwise; so a non-YouTube request whose audio step failed and whose
\* transcript was requested is answered 500.
C11_StatusReflectsArtifacts ==
    Answered =>
        /\ http_response.status \in {200, 500}
        /\ http_response.status = 500
               <=> /\ response.error # None
                   /\ ~AudioArtifact
                   /\ ~TranscriptExtracted

\* C12: a text/plain answer is given only to a transcript-only request whose
\* subtitle extraction succeeded, and its body is the extracted transcript;
\* a request for which no subtitle extraction took place gets JSON.
C12_PlainTextOnlyForExtractedTranscript ==
    (Answered /\ http_response.mimetype = "text/plain") =>
        /\ perform_transcript_extraction
        /\ ~perform_audio_extraction
        /\ CallCount("extract_info_subtitles") = 1
        /\ transcript_outcome = "parsed"
        /\ http_response.text = <<VttToPlaintext(vtt_content[1])>>

\* C13: after a successful metadata lookup, title and author are non-empty
\* strings whatever the shape of the metadata: the author is the uploader,
\* else the channel when the uploader is missing, null or empty, else a
\* placeholder; the title is the title field, else a placeholder.
C13_TitleAuthorNonEmpty ==
    MetadataSucceeded =>
        LET info == info_dict[1] IN
        /\ response.video_title \notin {None, ""}
        /\ response.author \notin {None, ""}
        /\ response.video_title =
               IF info.title = "str" THEN "Title" ELSE "unknown_title_x"
        /\ response.author =
               IF info.uploader = "str" THEN "Uploader"
               ELSE IF info.channel = "str" THEN "Channel"
               ELSE "unknown_author_x"

(***************************************************************************)
(* The audio step of two concurrent requests: the naming of the output     *)
(* directory and of the audio file (sanitize_filename, the timestamp and   *)
(* the directory creation).                                                *)
(***************************************************************************)
\* Ticks of the clock in one second, and the last tick of the model.
TicksPerSecond == 2
MaxClock == 3

max_length == 60

Letters ==
    {"a", "b", "c", "d", "e", "f", "g", "h", "i", "j", "k", "l", "m", "n",
     "o", "p", "q", "r", "s", "t", "u", "v", "w", "x", "y", "z",
     "A", "B", "C", "D", "E", "F", "G", "H", "I", "J", "K", "L", "M", "N",
     "O", "P", "Q", "R", "S", "T", "U", "V", "W", "X", "Y", "Z"}

\* str.isalnum() of one character.
IsAlnum(c) == c \in Letters \cup Digits

\* The character kept or replaced by "_".
SafeChar(c) == IF IsAlnum(c) \/ c \in {"-", "_"} THEN c ELSE "_"

\* re.sub(r'_+', '_', s)
RECURSIVE CollapseUnderscores(_)
CollapseUnderscores(s) ==
    IF Len(s) < 2 THEN s
    ELSE IF s[1] = "_" /\ s[2] = "_" THEN CollapseUnderscores(Tail(s))
    ELSE <<s[1]>> \o CollapseUnderscores(Tail(s))

\* s.strip('_')
RECURSIVE StripUnderscores(_)
StripUnderscores(s) ==
    IF s = <<>> THEN s
    ELSE IF s[1] = "_" THEN StripUnderscores(Tail(s))
    ELSE IF s[Len(s)] = "_" THEN StripUnderscores(SubSeq(s, 1, Len(s) - 1))
    ELSE s

sanitize_filename(name_str) ==
    LET s1 == Replace(name_str, <<" ">>, <<"_">>)
        s2 == [i \in 1..Len(s1) |-> SafeChar(s1[i])]
        s3 == CollapseUnderscores(s2)
        s4 == StripUnderscores(s3)
    IN  SubSeq(s4, 1, IF Len(s4) < max_length THEN Len(s4) ELSE max_length)

\* strftime("%Y-%m-%d_%H%M%S"): the time of the clock, to the second.
CurrentTimeStr(t) == t \div TicksPerSecond

Str_untitled == <<"u", "n", "t", "i", "t", "l", "e", "d">>

\* response["video_title"] if response["video_title"] else "untitled"
TitleOrUntitled(title) ==
    IF title # <<>> /\ title[1] # <<>> THEN title[1] ELSE Str_untitled

\* base_output_filename_safe
BaseOutputFilenameSafe(t, title) ==
    <<CurrentTimeStr(t), sanitize_filename(TitleOrUntitled(title))>>

\* Titles a metadata lookup may have stored: None (<<>>) or a string.
TitleCatalogue ==
    {<<>>, << <<>> >>, << <<"a", " ", "b">> >>, << <<"a", "_", "b">> >>,
     << <<"a", ":", " ", "b", "!">> >>, << <<"c">> >>}

\* Time passes.
Tick ==
    /\ clock < MaxClock
    /\ clock' = clock + 1
    /\ UNCHANGED <<video_title, request_folder_name,
                   output_template_audio_abs, downloads, rpc>>
    /\ UNCHANGED <<vttVars, orchVars, routeVars>>

\* A request names its directory, creates it unless it exists, and starts
\* the download into it.
EnterAudioStep ==
    \E r \in Requests :
        /\ rpc[r] = "ready"
        /\ LET base == BaseOutputFilenameSafe(clock, video_title[r]) IN
           /\ request_folder_name' =
                  [request_folder_name EXCEPT ![r] = <<base>>]
           /\ downloads' =
                  IF base \notin downloads THEN downloads \cup {base}
                  ELSE downloads
           /\ output_template_audio_abs' =
                  [output_template_audio_abs EXCEPT ![r] = << <<base, base>> >>]
        /\ rpc' = [rpc EXCEPT ![r] = "download"]
        /\ UNCHANGED <<clock, video_title>>
        /\ UNCHANGED <<vttVars, orchVars, routeVars>>

\* The download of a request ends, whatever its outcome.
LeaveAudioStep ==
    \E r \in Requests :
        /\ rpc[r] = "download"
        /\ rpc' = [rpc EXCEPT ![r] = "done"]
        /\ UNCHANGED <<clock, video_title, request_folder_name,
                       output_template_audio_abs, downloads>>
        /\ UNCHANGED <<vttVars, orchVars, routeVars>>

InitDirs ==
    /\ VttIdle
    /\ OrchIdle
    /\ clock = 0
    /\ video_title \in [Requests -> TitleCatalogue]
    /\ request_folder_name = [r \in Requests |-> <<>>]
    /\ output_template_audio_abs = [r \in Requests |-> <<>>]
    /\ downloads = {}
    /\ rpc = [r \in Requests |-> "ready"]

NextDirs ==
    \/ Tick
    \/ EnterAudioStep
    \/ LeaveAudioStep

SpecDirs == InitDirs /\ [][NextDirs]_vars

\* C14: two requests that are in the audio step at the same time never have
\* the same output directory nor the same audio file path, even with the
\* same sanitized title within the same second.
C14_ConcurrentRequestsIsolated ==
    \A r1, r2 \in Requests :
        (r1 # r2 /\ rpc[r1] = "download" /\ rpc[r2] = "download")
            => /\ request_folder_name[r1] # request_folder_name[r2]
               /\ output_template_audio_abs[r1] # output_template_audio_abs[r2]

\* C15: no fault escapes process_video_details: whichever collaborator
\* raises (metadata lookup, ffmpeg check, directory creation, audio
\* download, URL building, subtitle download, file read, file removal), the
\* run goes on to its return.
C15_NoFaultEscapes == pc # "raised"

\* Position of a collaborator invocation in the order of the steps.
CallRank(c) ==
    CASE c = "extract_info" -> 1
      [] c = "is_ffmpeg_available" -> 2
      [] c = "download" -> 3
      [] c = "extract_info_subtitles" -> 4

\* C16: in one run the collaborators are invoked in the order metadata
\* lookup, audio step, subtitle download, each at most once (so nothing is
\* retried); the audio step is entered only when requested and the subtitle
\* download only when requested for a YouTube URL; nothing is invoked before
\* the metadata lookup, and nothing after it when it failed.
C16_StepsInOrderAtMostOnce ==
    /\ \A i, j \in 1..Len(calls) :
           i < j => CallRank(calls[i]) < CallRank(calls[j])
    /\ calls # <<>> => calls[1] = "extract_info"
    /\ pc \in {"request", "metadata"} => calls = <<>>
    /\ pc = "audio" => calls = <<"extract_info">>
    /\ CallCount("is_ffmpeg_available") + CallCount("download") > 0
           => perform_audio_extraction /\ MetadataSucceeded
    /\ CallCount("extract_info_subtitles") > 0
           => /\ perform_transcript_extraction
              /\ IsYoutubeUrl(video_url)
              /\ MetadataSucceeded
              /\ pc \in {"resolve", "read", "cleanup", "done", "responded"}
    /\ (failures # <<>> /\ failures[1] \in MetadataErrors)
           => /\ calls = <<"extract_info">>
              /\ audio_outcome = None
              /\ transcript_outcome = None

\* C16 witness: a returned run in which the audio download failed and then
\* the subtitle download failed, each invoked once.
C16_Witness ==
    /\ pc = "done"
    /\ calls = <<"extract_info", "is_ffmpeg_available", "download",
                 "extract_info_subtitles">>
    /\ audio_outcome = "bad_code"
    /\ transcript_outcome = "download_raised"

\* C17: when the transcript is requested for a URL that is not a YouTube
\* URL, the subtitle download is never invoked, no subtitle file exists, the
\* language stays unset, and the error is what the audio step left: no
\* failure other than an audio failure is ever recorded.
C17_UnsupportedUrlNoExtraction ==
    (MetadataSucceeded /\ perform_transcript_extraction
        /\ video_url \in {Url_short, Url_other})
        => /\ CallCount("extract_info_subtitles") = 0
           /\ \A l \in Langs : ~Exists(temp_dir, l)
           /\ downloaded_vtt_path = None
           /\ response.transcript_language_detected = None
           /\ \A i \in 1..Len(failures) : failures[i] \in AudioErrors
           /\ response.error = (IF failures = <<>> THEN None ELSE failures[1])
           /\ (response.error # None
                   <=> audio_outcome \in {"no_ffmpeg", "bad_code", "missing", "fault"})
           /\ pc \in {"done", "responded"} => transcript_outcome = "unsupported"

\* C17 witness: a returned run for a youtu.be URL with the transcript
\* requested, whose audio step had failed.
C17_Witness ==
    /\ pc = "done"
    /\ video_url = Url_short
    /\ perform_transcript_extraction
    /\ transcript_outcome = "unsupported"
    /\ audio_outcome = "bad_code"
    /\ response.error = E_AudioCode

\* Lines that are not cue text, or whose text is empty once tags are removed
\* and entities decoded.
TextlessLines == {L_webvtt, L_blank, L_time, L_tagonly, L_entity}

\* C18: no emitted segment is empty; the returned text has no empty line
\* (it neither starts nor ends with a line break and has no two line breaks
\* in a row); input without a time range, or whose lines carry no text, is
\* converted to the empty text.
C18_NoEmptySegment ==
    /\ \A i \in 1..Len(collected_text_segments) :
           collected_text_segments[i] # <<>>
    /\ \A i \in 1..Len(deduplicated_final_lines) :
           deduplicated_final_lines[i] # <<>>
    /\ vpc = "returned" =>
           LET out == final_text[1] IN
           /\ out # <<>> =>
                  /\ out[1] # "\n"
                  /\ out[Len(out)] # "\n"
                  /\ \A i \in 1..(Len(out) - 1) :
                         ~(out[i] = "\n" /\ out[i + 1] = "\n")
           /\ (\A i \in 1..Len(lines) : lines[i] # L_time) => out = <<>>
           /\ (\A i \in 1..Len(lines) : lines[i] \in TextlessLines)
                  => out = <<>>

\* C18 witness: a cue whose only text is an entity for a space emits
\* nothing, and the following cue with malformed markup emits its text.
C18_Witness ==
    /\ vpc = "returned"
    /\ lines = <<L_time, L_entity, L_time, L_malformed>>
    /\ collected_text_segments = << <<"<", ">">> >>
    /\ final_text = << <<"<", ">">> >>

\* C19: in every result returned for a YouTube URL the language is set
\* exactly when the transcript text is set; a run that resolved a language
\* and then failed to read or parse the file returns no language.
C19_LanguageIffTranscript ==
    (pc \in {"done", "responded"} /\ IsYoutubeUrl(video_url))
        => (response.transcript_language_detected # None
                <=> response.transcript_text # <<>>)

\* C20: in every returned result the audio storage path is set exactly when
\* the audio URL is set, and neither is set when the audio step recorded an
\* error.
C20_AudioPathIffUrl ==
    pc \in {"done", "responded"}
        => /\ response.audio_server_path # None
                  <=> response.audio_download_url # None
           /\ audio_outcome \in {"no_ffmpeg", "bad_code", "missing", "fault"}
                  => /\ response.audio_server_path = None
                     /\ response.audio_download_url = None

\* The in-cue-text flag when line i is reached: a time-range marker line
\* came before, with no blank and no header or metadata line since.
FlagBefore(ls, i) ==
    \E j \in 1..(i - 1) :
        /\ TimeRangeLine(ls[j])
        /\ ~IsBlank(ls[j])
        /\ ~HeaderOrMetadataLine(ls[j])
        /\ \A k \in (j + 1)..(i - 1) :
               ~IsBlank(ls[k]) /\ ~HeaderOrMetadataLine(ls[k])

\* Line i is a text line whose non-empty cleaned text goes to the buffer.
BufferedLine(ls, i) ==
    /\ FlagBefore(ls, i)
    /\ ~IsBlank(ls[i])
    /\ ~HeaderOrMetadataLine(ls[i])
    /\ ~TimeRangeLine(ls[i])
    /\ CleanedText(ls[i]) # <<>>

\* The lines among the first n that went to the buffer, in source order.
RECURSIVE BufferedUpTo(_, _)
BufferedUpTo(ls, n) ==
    IF n = 0 THEN <<>>
    ELSE BufferedUpTo(ls, n - 1)
             \o (IF BufferedLine(ls, n) THEN <<n>> ELSE <<>>)

RECURSIVE Flatten(_)
Flatten(seqs) ==
    IF seqs = <<>> THEN <<>> ELSE Head(seqs) \o Flatten(Tail(seqs))

\* The cleaned texts of the given lines of the input.
CleanedTexts(src) == [j \in 1..Len(src) |-> CleanedText(lines[src[j]])]

\* C21: no buffered text is lost.  During the loop the lines behind the
\* emitted segments followed by the lines behind the buffer are exactly the
\* lines that went to the buffer so far, each once and in source order; after
\* the loop the lines behind the segments are all of them; each segment is
\* the cleaned texts of its lines joined by spaces and the buffer holds the
\* cleaned texts of its lines.  A header or blank line that finds the buffer
\* non-empty with the flag cleared changes none of this.
C21_NoBufferedTextLost ==
    vpc # "idle" =>
        /\ Len(seg_src) = Len(collected_text_segments)
        /\ \A k \in 1..Len(seg_src) :
               /\ seg_src[k] # <<>>
               /\ collected_text_segments[k] =
                      Join(CleanedTexts(seg_src[k]), <<" ">>)
        /\ vpc = "loop" =>
               /\ Flatten(seg_src) \o cue_src = BufferedUpTo(lines, idx)
               /\ current_cue_lines = CleanedTexts(cue_src)
        /\ vpc # "loop" =>
               Flatten(seg_src) = BufferedUpTo(lines, Len(lines))

\* C21 witness: a cue text line, then a metadata line that clears the flag,
\* then a blank line that finds the buffer non-empty: the text is emitted
\* by the flush after the loop.
C21_Witness ==
    /\ vpc = "parsed"
    /\ lines = <<L_time, L_a, L_note, L_blank>>
    /\ ~in_cue_text_block
    /\ seg_src = << <<2>> >>
    /\ collected_text_segments = <<L_a>>

====
